---- MODULE Spec2Model ----
(***************************************************************************)
(* Model of the Connect-4 agent Aha (src/groups/Magnus_Carlsen/policy.py)  *)
(* played by the driver loop of src/testmagnus.py.  The board is the       *)
(* flattened row-major tuple the agent uses as position key (row 0 is the  *)
(* top row); the grid and the connect length are scaled down.              *)
(***************************************************************************)
EXTENDS Integers, Sequences, FiniteSets, TLC

\* ---------------------------------------------------------------- bounds
ROWS == 3
COLS == 3
WinLen == 3
\* simulations per search episode (Aha.__init__, simulations): in games Aha
\* plays from the first move, and in games it takes over once at most
\* LateEmpty cells are empty
Sims == 3
SimsLate == 5
LateEmpty == 3
\* search episodes per run of the driver
MaxSearches == 1
\* states of a seeded generator, and the seeds tried
RngStates == 16
NumSeeds == 4
\* simulations per search, and decisions compared, when the generator is seeded
SimsSeeded == 4
Runs == 2
\* experience tuples applied to one entry of the Q-store
MaxUpdates == 48
\* empty cells at which Aha takes over in the games checked for termination
LiveEmpty == 3
\* decisions asked on one position
Decisions == 3
\* decimal digits of a stored Q value
QDigits == 7

\* ------------------------------------------------------------- constants
RED == -1
YELLOW == 1
None == -1

Range(seq) == {seq[i] : i \in 1..Len(seq)}

\* --------------------------------------------- ConnectState (collaborator)
Idx(r, c) == r * COLS + c + 1

EmptyBoard == [i \in 1..(ROWS * COLS) |-> 0]

Dirs == {<<0, 1>>, <<1, 0>>, <<1, 1>>, <<1, -1>>}

Lines ==
  {{Idx(r + k * d[1], c + k * d[2]) : k \in 0..(WinLen - 1)} :
     <<r, c, d>> \in {x \in (0..(ROWS - 1)) \X (0..(COLS - 1)) \X Dirs :
        /\ x[1] + (WinLen - 1) * x[3][1] \in 0..(ROWS - 1)
        /\ x[2] + (WinLen - 1) * x[3][2] \in 0..(COLS - 1)}}

HasLine(b, p) == \E L \in Lines : \A i \in L : b[i] = p

\* ConnectState.get_winner: the owner of a line of WinLen, 0 when there is
\* none.  A game that stops at the first line has lines of one player only;
\* on a board played on past its end a red line is reported first.
get_winner(b) ==
  IF HasLine(b, RED) THEN RED ELSE IF HasLine(b, YELLOW) THEN YELLOW ELSE 0

is_applicable(b, col) == col \in 0..(COLS - 1) /\ b[Idx(0, col)] = 0

get_free_cols(b) ==
  SelectSeq([i \in 1..COLS |-> i - 1], LAMBDA c : b[Idx(0, c)] = 0)

is_final(b) == get_winner(b) # 0 \/ get_free_cols(b) = <<>>

\* the lowest empty row of an applicable column
DropRow(b, col) ==
  CHOOSE r \in 0..(ROWS - 1) :
    /\ b[Idx(r, col)] = 0
    /\ \A r2 \in (r + 1)..(ROWS - 1) : b[Idx(r2, col)] # 0

\* the board after `player` drops a piece into an applicable column
Drop(b, col, player) == [b EXCEPT ![Idx(DropRow(b, col), col)] = player]

\* what transition yields when it raises on a column that is not applicable
IllegalMove == [board |-> << >>, player |-> 0]

\* ConnectState.transition: a state is [board, player]
transition(st, col) ==
  IF is_applicable(st.board, col)
  THEN [board |-> Drop(st.board, col, st.player), player |-> -st.player]
  ELSE IllegalMove


\* ---------------------------------------------------------------- Q-store
\* Stored values are exact rationals with the common denominator QDen.
alphaNum == 3
alphaDen == 10
QDen == 2 * 10 ^ QDigits
Neutral == QDen \div 2

\* A table is the dict self.Q in insertion order.  A loaded file is given by
\* the rule of its entries: for every position key the (action, value)
\* entries of the named base, in this order; `upd` holds, in insertion order,
\* the entries written since (unique per (key, action)).
BaseEntries(base) ==
  CASE base = "first" -> << <<1, 2 * (QDen \div 10)>>, <<0, 9 * (QDen \div 10)>>,
                             <<COLS - 1, 9 * (QDen \div 10)>> >>
    [] base = "range" -> << <<COLS, 8 * (QDen \div 10)>>, <<0, 1 * (QDen \div 10)>> >>
    [] OTHER          -> << >>

Bases == {"first", "range"}

EmptyQ == [base |-> "none", upd |-> << >>]

FileTables == {[base |-> n, upd |-> << >>] : n \in Bases}

HasUpd(q, key, a) == \E i \in 1..Len(q.upd) : q.upd[i][1] = key /\ q.upd[i][2] = a

UpdVal(q, key, a) ==
  q.upd[CHOOSE i \in 1..Len(q.upd) : q.upd[i][1] = key /\ q.upd[i][2] = a][3]

HasBase(q, a) == \E i \in 1..Len(BaseEntries(q.base)) : BaseEntries(q.base)[i][1] = a

BaseVal(q, a) ==
  BaseEntries(q.base)[CHOOSE i \in 1..Len(BaseEntries(q.base)) :
                        BaseEntries(q.base)[i][1] = a][2]

\* self.Q.get((s_key, action), 0.5)
QGet(q, key, a) ==
  IF HasUpd(q, key, a) THEN UpdVal(q, key, a)
  ELSE IF HasBase(q, a) THEN BaseVal(q, a)
  ELSE Neutral

\* [(k[1], v) for k, v in self.Q.items() if k[0] == s_key], in dict order
Candidates(q, key) ==
  LET be == BaseEntries(q.base)
      fromBase == [i \in 1..Len(be) |-> <<be[i][1], QGet(q, key, be[i][1])>>]
      added == SelectSeq(q.upd, LAMBDA e : e[1] = key /\ ~HasBase(q, e[2]))
  IN  fromBase \o [i \in 1..Len(added) |-> <<added[i][2], added[i][3]>>]

\* mutant of BestQAction: the sort is not stable, the last entry of maximal
\* value comes first
BestQActionLast(cands) ==
  LET i == CHOOSE k \in 1..Len(cands) :
             /\ \A j \in 1..Len(cands) : cands[j][2] <= cands[k][2]
             /\ \A j \in (k + 1)..Len(cands) : cands[j][2] < cands[k][2]
  IN  cands[i][1]

\* candidates.sort(key=value, reverse=True)[0][0]: the sort is stable, so the
\* first entry of maximal value
BestQAction(cands) ==
  LET i == CHOOSE k \in 1..Len(cands) :
             /\ \A j \in 1..Len(cands) : cands[j][2] <= cands[k][2]
             /\ \A j \in 1..(k - 1) : cands[j][2] < cands[k][2]
  IN  cands[i][1]

\* mutant of QUpdate: the parentheses are lost, old_q + alpha * r - old_q
QUpdateNoParens(q, key, a, r2, al) ==
  LET old == QGet(q, key, a)
      new == old + (al * r2 * Neutral) \div alphaDen - old
  IN  IF HasUpd(q, key, a)
      THEN [q EXCEPT !.upd = [i \in 1..Len(q.upd) |->
              IF q.upd[i][1] = key /\ q.upd[i][2] = a
              THEN <<key, a, new>> ELSE q.upd[i]]]
      ELSE [q EXCEPT !.upd = Append(q.upd, <<key, a, new>>)]

\* self.Q[(s_key, a)] = old_q + alpha * (r - old_q), r2 the reward in halves
\* and al the learning rate in units of 1 / alphaDen
QUpdate(q, key, a, r2, al) ==
  LET old == QGet(q, key, a)
      new == old + (al * (r2 * Neutral - old)) \div alphaDen
  IN  IF HasUpd(q, key, a)
      THEN [q EXCEPT !.upd = [i \in 1..Len(q.upd) |->
              IF q.upd[i][1] = key /\ q.upd[i][2] = a
              THEN <<key, a, new>> ELSE q.upd[i]]]
      ELSE [q EXCEPT !.upd = Append(q.upd, <<key, a, new>>)]

RECURSIVE ApplyExperience(_, _, _)
ApplyExperience(q, exp, al) ==
  IF exp = << >> THEN q
  ELSE ApplyExperience(QUpdate(q, exp[1][1], exp[1][2], exp[1][3], al), Tail(exp), al)

\* ----------------------------------------------------------------- pickle
\* pickle.dump(self.Q, f, protocol=HIGHEST_PROTOCOL) as the stream of its
\* opcodes (framing and memo opcodes left out); a token is [op, arg], arg
\* the operand bytes, for BINFLOAT the stored double.
Tok(op, arg) == [op |-> op, arg |-> arg]

\* mutant of EncInt: every int is written as one unsigned byte
EncIntUnsigned(x) == Tok("BININT1", <<x % 2 ^ 8>>)

\* a python int: BININT1 and BININT2 are unsigned, BININT is the signed
\* 32-bit little-endian form
EncInt(x) ==
  IF x >= 0 /\ x < 2 ^ 8 THEN Tok("BININT1", <<x>>)
  ELSE IF x >= 0 /\ x < 2 ^ 16 THEN Tok("BININT2", <<x % 2 ^ 8, x \div 2 ^ 8>>)
  ELSE LET y == IF x < 0 THEN x + 2 ^ 30 + 2 ^ 30 ELSE x
           top == (y \div 2 ^ 24) + (IF x < 0 THEN 2 ^ 7 ELSE 0)
       IN  Tok("BININT", <<y % 2 ^ 8, (y \div 2 ^ 8) % 2 ^ 8,
                           (y \div 2 ^ 16) % 2 ^ 8, top>>)

DecInt(t) ==
  IF t.op = "BININT1" THEN t.arg[1]
  ELSE IF t.op = "BININT2" THEN t.arg[1] + t.arg[2] * 2 ^ 8
  ELSE LET low == t.arg[1] + t.arg[2] * 2 ^ 8 + t.arg[3] * 2 ^ 16
       IN  IF t.arg[4] >= 2 ^ 7
           THEN (low + (t.arg[4] - 2 ^ 7) * 2 ^ 24) - 2 ^ 30 - 2 ^ 30
           ELSE low + t.arg[4] * 2 ^ 24

\* the key (s_key, a): s_key has more than three items, so MARK ... TUPLE
EncKey(key, a) ==
  <<Tok("MARK", << >>)>> \o [i \in 1..Len(key) |-> EncInt(key[i])]
    \o <<Tok("TUPLE", << >>), EncInt(a), Tok("TUPLE2", << >>)>>

EncItem(e) == EncKey(e[1], e[2]) \o <<Tok("BINFLOAT", <<e[3]>>)>>

RECURSIVE EncItems(_)
EncItems(items) ==
  IF items = << >> THEN << >> ELSE EncItem(Head(items)) \o EncItems(Tail(items))

\* save_dict: one item is written with SETITEM, several between MARK and
\* SETITEMS, none with no opcode at all
pickle_dump(items) ==
  <<Tok("EMPTY_DICT", << >>)>>
    \o (IF Len(items) = 0 THEN << >>
        ELSE IF Len(items) = 1 THEN EncItem(items[1]) \o <<Tok("SETITEM", << >>)>>
        ELSE <<Tok("MARK", << >>)>> \o EncItems(items) \o <<Tok("SETITEMS", << >>)>>)
    \o <<Tok("STOP", << >>)>>

\* the unpickling machine: its stack holds [t, v] with t the type of v
Obj(t, v) == [t |-> t, v |-> v]

LastMark(stack) ==
  IF \E i \in 1..Len(stack) : stack[i].t = "mark"
  THEN CHOOSE i \in 1..Len(stack) :
         stack[i].t = "mark" /\ \A j \in (i + 1)..Len(stack) : stack[j].t # "mark"
  ELSE 0

\* dict[key] = value on the list of items of a dict
SetItem(items, k, v) ==
  IF \E i \in 1..Len(items) : items[i][1] = k[1] /\ items[i][2] = k[2]
  THEN [i \in 1..Len(items) |->
          IF items[i][1] = k[1] /\ items[i][2] = k[2]
          THEN <<k[1], k[2], v>> ELSE items[i]]
  ELSE Append(items, <<k[1], k[2], v>>)

RECURSIVE SetItems(_, _)
SetItems(items, pairs) ==
  IF Len(pairs) < 2 THEN items
  ELSE SetItems(SetItem(items, pairs[1].v, pairs[2].v), Tail(Tail(pairs)))

\* whether the objects between a mark and the top are key, value, key, ...
ArePairs(objs) ==
  /\ Len(objs) % 2 = 0
  /\ \A i \in 1..Len(objs) :
       objs[i].t = (IF i % 2 = 1 THEN "key" ELSE "float")

\* the stack after an UnpicklingError
Failed == <<Obj("error", << >>)>>

\* one opcode
Step(stack, t) ==
  LET n == Len(stack)
      m == LastMark(stack)
  IN  CASE t.op = "EMPTY_DICT" -> Append(stack, Obj("dict", << >>))
        [] t.op = "MARK" -> Append(stack, Obj("mark", << >>))
        [] t.op \in {"BININT1", "BININT2", "BININT"} ->
             Append(stack, Obj("int", DecInt(t)))
        [] t.op = "BINFLOAT" -> Append(stack, Obj("float", t.arg[1]))
        [] t.op = "TUPLE" ->
             IF m > 0 /\ \A i \in (m + 1)..n : stack[i].t = "int"
             THEN Append(SubSeq(stack, 1, m - 1),
                         Obj("tuple", [i \in 1..(n - m) |-> stack[m + i].v]))
             ELSE Failed
        [] t.op = "TUPLE2" ->
             IF n >= 2 /\ stack[n - 1].t = "tuple" /\ stack[n].t = "int"
             THEN Append(SubSeq(stack, 1, n - 2),
                         Obj("key", <<stack[n - 1].v, stack[n].v>>))
             ELSE Failed
        [] t.op = "SETITEM" ->
             IF n >= 3 /\ stack[n - 2].t = "dict" /\ ArePairs(SubSeq(stack, n - 1, n))
             THEN Append(SubSeq(stack, 1, n - 3),
                         Obj("dict", SetItems(stack[n - 2].v, SubSeq(stack, n - 1, n))))
             ELSE Failed
        [] t.op = "SETITEMS" ->
             IF m >= 2 /\ stack[m - 1].t = "dict" /\ ArePairs(SubSeq(stack, m + 1, n))
             THEN Append(SubSeq(stack, 1, m - 2),
                         Obj("dict", SetItems(stack[m - 1].v, SubSeq(stack, m + 1, n))))
             ELSE Failed
        [] OTHER -> Failed

\* pickle.load: ok tells whether it returned, val is the dict it returned
RECURSIVE Unpickle(_, _)
Unpickle(stream, stack) ==
  IF stream = << >> THEN [ok |-> FALSE, val |-> << >>]
  ELSE IF Head(stream).op = "STOP"
       THEN IF Len(stack) = 1 /\ stack[1].t = "dict"
            THEN [ok |-> TRUE, val |-> stack[1].v]
            ELSE [ok |-> FALSE, val |-> << >>]
       ELSE IF Len(stack) = 1 /\ stack[1].t = "error"
            THEN [ok |-> FALSE, val |-> << >>]
            ELSE Unpickle(Tail(stream), Step(stack, Head(stream)))

pickle_load(stream) == Unpickle(stream, << >>)

\* A q_file: `base` names the entries it held when the run began (the
\* rule of BaseEntries, "absent" when there is no file), `bytes` is the
\* pickle of the entries written since.
TableFile(q) == [base |-> q.base, bytes |-> pickle_dump(q.upd)]

NoFile == [base |-> "absent", bytes |-> << >>]

\* a file cut off after its first opcode
CorruptFile == [base |-> "first", bytes |-> <<Tok("EMPTY_DICT", << >>)>>]

\* mutant of load_Q: no os.path.exists test and no try/except
load_Q_uncaught(f) ==
  IF f.base # "absent" /\ pickle_load(f.bytes).ok
  THEN [table |-> [base |-> f.base, upd |-> pickle_load(f.bytes).val],
        raised |-> FALSE]
  ELSE [table |-> EmptyQ, raised |-> TRUE]

\* load_Q: the table self.Q is set to, and whether an exception escaped
load_Q(f) ==
  IF f.base # "absent"
  THEN IF pickle_load(f.bytes).ok
       THEN [table |-> [base |-> f.base, upd |-> pickle_load(f.bytes).val],
             raised |-> FALSE]
       ELSE [table |-> EmptyQ, raised |-> FALSE]
  ELSE [table |-> EmptyQ, raised |-> FALSE]

\* what can become of the write of save_Q: it goes through, open() fails and
\* the file is as before, or the dump breaks off after open() truncated it
WriteOutcomes == {"written", "denied", "cut"}

\* mutant of save_Q: the entries of the file that the table lacks are kept
save_Q_merging(q, f, outcome) ==
  LET kept(e) == ~HasUpd(q, e[1], e[2])
      merged == [q EXCEPT !.upd = @ \o SelectSeq(load_Q(f).table.upd, kept)]
  IN  CASE outcome = "written" -> TableFile(merged)
        [] outcome = "denied" -> f
        [] OTHER -> [base |-> q.base, bytes |-> SubSeq(pickle_dump(q.upd), 1, 1)]

\* the file after save_Q
save_Q(q, f, outcome) ==
  CASE outcome = "written" -> TableFile(q)
    [] outcome = "denied" -> f
    [] OTHER -> [base |-> q.base, bytes |-> SubSeq(pickle_dump(q.upd), 1, 1)]

\* mutant of current_player: the comparison is >= instead of ==
current_player_ge(b) ==
  LET num_red == Cardinality({i \in DOMAIN b : b[i] = RED})
      num_yellow == Cardinality({i \in DOMAIN b : b[i] = YELLOW})
  IN  IF num_red >= num_yellow THEN RED ELSE YELLOW

\* ------------------------------------------------------ tactical heuristics
\* num_red, num_yellow and current_player of act
current_player(b) ==
  LET num_red == Cardinality({i \in DOMAIN b : b[i] = RED})
      num_yellow == Cardinality({i \in DOMAIN b : b[i] = YELLOW})
  IN  IF num_red = num_yellow THEN RED ELSE YELLOW

\* the columns on which the lookahead loops call transition:
\* `for col in free: if state.is_applicable(col)`
LookaheadCols(b) ==
  SelectSeq(get_free_cols(b), LAMBDA c : is_applicable(b, c))

\* The single-ply lookahead loop over `cols` with `who` to move: it stops at
\* the first column whose transition raises or whose result is won by `who`.
\* col is the column returned (None when the loop ends), raised tells whether
\* transition raised.
Lookahead(b, cols, who) ==
  LET st == [board |-> b, player |-> who]
      stops == {i \in 1..Len(cols) :
                  \/ transition(st, cols[i]) = IllegalMove
                  \/ get_winner(transition(st, cols[i]).board) = who}
      i == IF stops = {} THEN 0 ELSE CHOOSE k \in stops : \A j \in stops : k <= j
  IN  IF i = 0 THEN [col |-> None, raised |-> FALSE]
      ELSE IF transition(st, cols[i]) = IllegalMove
           THEN [col |-> None, raised |-> TRUE]
           ELSE [col |-> cols[i], raised |-> FALSE]

\* mutant of _winning_move: the winner is compared with the opponent
winning_move_for_enemy(b, player) == Lookahead(b, LookaheadCols(b), -player)

_winning_move(b, player) == Lookahead(b, LookaheadCols(b), player)

\* mutant of _block_enemy: enemy = player, the negation is lost
block_enemy_as_self(b, player) == Lookahead(b, LookaheadCols(b), player)

_block_enemy(b, player) == Lookahead(b, LookaheadCols(b), -player)

\* `x in free and state.is_applicable(x)`, the legality test of act
LegalIn(b, free, x) == x \in Range(free) /\ is_applicable(b, x)

\* --------------------------------------------------------------- Node, UCB1
\* beta = 0.7 and exploration_c = sqrt(2); scores are compared in fixed point
\* with Scale units per 1.0, multiplied by betaDen.
betaNum == 7
betaDen == 10
cSquared == 2
Scale == 10 ^ 4
InfScore == 2 * 10 ^ 9

\* ln(n) * Scale for n = 1..8
LnTable == <<0, 6931, 10986, 13863, 16094, 17918, 19459, 20794>>

RECURSIVE SqrtBetween(_, _, _)
SqrtBetween(x, lo, hi) ==
  IF lo >= hi THEN lo
  ELSE LET mid == (lo + hi + 1) \div 2
       IN  IF mid * mid <= x THEN SqrtBetween(x, mid, hi)
           ELSE SqrtBetween(x, lo, mid - 1)

\* floor of the square root
ISqrt(x) == SqrtBetween(x, 0, 2 * Scale)

\* Node.__init__
NewNode(st) ==
  [state |-> st, visits |-> 0, value2 |-> 0,
   untried |-> get_free_cols(st.board), children |-> << >>]

is_fully_expanded(n) == Len(n.untried) = 0

\* the score best_child gives the child reached by `a` from the node at path p
Score(t, q, p, a) ==
  LET n == t[p]
      child == t[Append(p, a)]
      prior == QGet(q, n.state.board, a) \div (QDen \div Scale)
      exploitation == (child.value2 * Scale) \div (2 * child.visits)
      exploration ==
        ISqrt((cSquared * LnTable[n.visits] * Scale) \div child.visits)
  IN  IF child.visits > 0
      THEN (betaDen - betaNum) * prior + betaNum * (exploitation + exploration)
      ELSE InfScore

\* mutant of best_child: any child is drawn, whatever its score
best_child_any(t, q, p) == Range(t[p].children)

\* best_nodes of best_child: the children of maximal score (one of them is
\* drawn at random)
best_child(t, q, p) ==
  {a \in Range(t[p].children) :
     \A b \in Range(t[p].children) : Score(t, q, p, b) <= Score(t, q, p, a)}

\* mutant of Select: the descent goes on through a node that has children,
\* whether or not it still has untried actions
RECURSIVE SelectPartial(_, _, _)
SelectPartial(t, q, p) ==
  IF ~is_final(t[p].state.board) /\ t[p].children # << >>
  THEN UNION {SelectPartial(t, q, Append(p, a)) : a \in best_child(t, q, p)}
  ELSE {p}

\* 1) SELECCION: the paths the descent from path p can stop at
RECURSIVE Select(_, _, _)
Select(t, q, p) ==
  IF ~is_final(t[p].state.board) /\ is_fully_expanded(t[p])
  THEN UNION {Select(t, q, Append(p, a)) : a \in best_child(t, q, p)}
  ELSE {p}

\* node.untried_actions.remove(action)
Remove(seq, a) == SelectSeq(seq, LAMBDA x : x # a)

RECURSIVE WithChildren(_, _, _)
\* the tree t with a new child of the node at path p for each action of acts
WithChildren(t, p, acts) ==
  IF acts = << >> THEN t
  ELSE LET child == NewNode(transition(t[p].state, Head(acts)))
           u == [x \in DOMAIN t \cup {Append(p, Head(acts))} |->
                   IF x = Append(p, Head(acts)) THEN child ELSE t[x]]
       IN  WithChildren(u, p, Tail(acts))

\* mutant of Expand: all untried actions are expanded at once, the drawn one
\* first
ExpandAll(t, p, action) ==
  LET acts == <<action>> \o Remove(t[p].untried, action)
      u == WithChildren(t, p, acts)
  IN  [u EXCEPT ![p] = [t[p] EXCEPT !.untried = << >>,
                                    !.children = t[p].children \o acts]]

\* mutant of Expand: the action stays among the untried ones
ExpandKeep(t, p, action) ==
  LET child == NewNode(transition(t[p].state, action))
  IN  [x \in DOMAIN t \cup {Append(p, action)} |->
         IF x = Append(p, action) THEN child
         ELSE IF x = p
              THEN [t[p] EXCEPT !.children = Append(t[p].children, action)]
              ELSE t[x]]

\* 2) EXPANSION of the node at path p by `action`
Expand(t, p, action) ==
  LET child == NewNode(transition(t[p].state, action))
  IN  [x \in DOMAIN t \cup {Append(p, action)} |->
         IF x = Append(p, action) THEN child
         ELSE IF x = p
              THEN [t[p] EXCEPT !.untried = Remove(t[p].untried, action),
                                !.children = Append(t[p].children, action)]
              ELSE t[x]]

\* mutant of Reward2: a loss counts -1.0
Reward2Signed(b, root_player) ==
  LET winner == get_winner(b)
  IN  IF winner = root_player THEN 2 ELSE IF winner = 0 THEN 1 ELSE -2

\* the reward of a rollout that ended in board b (in halves: 2, 1, 0)
Reward2(b, root_player) ==
  LET winner == get_winner(b)
  IN  IF winner = root_player THEN 2 ELSE IF winner = 0 THEN 1 ELSE 0

Prefixes(p) == {SubSeq(p, 1, k) : k \in 0..Len(p)}

\* mutant of Backpropagate: the walk starts at the parent of the simulated
\* node
BackpropagateAbove(t, p, r2) ==
  [x \in DOMAIN t |->
     IF x \in Prefixes(p) /\ x # p
     THEN [t[x] EXCEPT !.visits = @ + 1, !.value2 = @ + r2]
     ELSE t[x]]

\* mutant of Backpropagate: the reward is flipped at every other level, as for
\* a value kept from the point of view of the player to move
BackpropagateFlip(t, p, r2) ==
  [x \in DOMAIN t |->
     IF x \in Prefixes(p)
     THEN [t[x] EXCEPT !.visits = @ + 1,
                       !.value2 = @ + (IF (Len(p) - Len(x)) % 2 = 0
                                       THEN r2 ELSE 2 - r2)]
     ELSE t[x]]

\* 4) BACKPROPAGATION from the node at path p
Backpropagate(t, p, r2) ==
  [x \in DOMAIN t |->
     IF x \in Prefixes(p)
     THEN [t[x] EXCEPT !.visits = @ + 1, !.value2 = @ + r2]
     ELSE t[x]]

\* mutant of Experience: the edge that leaves the root is not recorded
ExperienceBelowRoot(t, p, r2) ==
  [i \in 1..(Len(p) - 1) |->
     <<t[SubSeq(p, 1, Len(p) - i)].state.board, p[Len(p) - i + 1], r2>>]

\* the experience tuples of one backpropagation, leaf edge first
Experience(t, p, r2) ==
  [i \in 1..Len(p) |->
     <<t[SubSeq(p, 1, Len(p) - i)].state.board, p[Len(p) - i + 1], r2>>]

\* mutant of MostVisited: the child of maximal average value is taken
MostValued(t) ==
  LET ch == t[<< >>].children
      i == CHOOSE k \in 1..Len(ch) :
             /\ \A j \in 1..Len(ch) :
                  t[<<ch[j]>>].value2 * t[<<ch[k]>>].visits
                    <= t[<<ch[k]>>].value2 * t[<<ch[j]>>].visits
             /\ \A j \in 1..(k - 1) :
                  t[<<ch[j]>>].value2 * t[<<ch[k]>>].visits
                    < t[<<ch[k]>>].value2 * t[<<ch[j]>>].visits
  IN  ch[i]

\* max(root.children.values(), key=visits).parent_action: the first child, in
\* insertion order, of maximal visit count
MostVisited(t) ==
  LET ch == t[<< >>].children
      i == CHOOSE k \in 1..Len(ch) :
             /\ \A j \in 1..Len(ch) : t[<<ch[j]>>].visits <= t[<<ch[k]>>].visits
             /\ \A j \in 1..(k - 1) : t[<<ch[j]>>].visits < t[<<ch[k]>>].visits
  IN  ch[i]

\* ------------------------------------------------------------------ state
VARIABLES
  board,       \* the driver's ConnectState.board
  turn,        \* the driver's ConnectState.player
  Q,           \* Aha.Q
  simulations, \* Aha.simulations
  alpha,       \* Aha.alpha, in units of 1 / alphaDen
  rng,         \* Aha.rng, the generator the policy owns
  runs,        \* the q_file the run started from and the columns earlier runs returned
  qfile,       \* the content of q_file
  pc,          \* where the driver and the act call it makes stand
  ret,         \* the column act returned
  stages,      \* the stages the running act call has executed
  error,       \* the exception that escaped, "none" when none did
  tree,        \* the search tree of _mcts: path from the root -> Node
  iters,       \* completed iterations of the `for _ in range(simulations)` loop
  node,        \* the path of `node` in _mcts
  cur,         \* `current` of _rollout
  experience,  \* `experience` of _mcts
  searches,    \* search episodes run so far
  peer,        \* Aha.Q of a second instance that uses the same q_file
  saver        \* whose table q_file holds since the last save: "self", "peer", "none"

vars == <<board, turn, Q, simulations, alpha, rng, runs, qfile, pc, ret, stages, error, tree, iters, node, cur,
          experience, searches, peer, saver>>

NoTree == [x \in {} |-> 0]
NoState == [board |-> << >>, player |-> 0]

searchVars == <<tree, iters, node, cur, experience>>

\* self.rng = np.random.default_rng(): seeded from the system's entropy, any
\* draw can come out
Entropy == [seeded |-> FALSE, seed |-> 0, s |-> 0]

\* a generator that was given a seed: its draws are a function of its state
Seeded(seed) == [seeded |-> TRUE, seed |-> seed, s |-> seed % RngStates]

\* rng.choice(seq) gives x
Drawn(g, seq, x) == g.seeded => x = seq[1 + (g.s % Len(seq))]

\* the generator after a draw
Advance(g) == IF g.seeded THEN [g EXCEPT !.s = (5 * @ + 3) % RngStates] ELSE g

\* the q_files a run starts from
Files == {TableFile(q) : q \in FileTables} \cup {NoFile}

\* ConnectState() and Aha() as the drivers construct them, q_file given
Begin ==
  /\ board = EmptyBoard
  /\ turn = RED
  /\ Q = EmptyQ
  /\ runs = [file |-> qfile, cols |-> << >>]
  /\ pc = "idle"
  /\ ret = None
  /\ stages = {}
  /\ error = "none"
  /\ tree = NoTree
  /\ iters = 0
  /\ node = << >>
  /\ cur = NoState
  /\ experience = << >>
  /\ searches = 0
  /\ peer = EmptyQ
  /\ saver = "none"

\* Aha(simulations=...) with the default alpha and its own generator, on one
\* of the q_files
Start == qfile \in Files /\ Begin /\ alpha = alphaNum /\ rng = Entropy

Init == Start /\ simulations = Sims

InitLate == Start /\ simulations = SimsLate

\* Aha.mount, called by play_game before the first move
mount ==
  /\ pc = "idle"
  /\ board = EmptyBoard
  /\ IF load_Q(qfile).raised
     THEN Q' = Q /\ error' = "load_Q" /\ pc' = "raised"
     ELSE Q' = load_Q(qfile).table /\ error' = error /\ pc' = pc
  /\ UNCHANGED <<board, turn, simulations, alpha, rng, runs, qfile, ret, stages, searchVars, searches, peer, saver>>

\* whether the driver loop `while not state.is_final()` goes on
Playing == pc = "idle" /\ ~is_final(board) /\ searches < MaxSearches

\* RandomBot.act followed by state.transition(action)
RandomMove ==
  /\ Playing
  /\ \E c \in {x \in 0..(COLS - 1) : board[Idx(0, x)] = 0} :
       /\ board' = transition([board |-> board, player |-> turn], c).board
       /\ turn' = -turn
  /\ UNCHANGED <<Q, simulations, alpha, rng, runs, qfile, pc, ret, stages, error, searchVars, searches, peer, saver>>

\* mutant of ActEntry: the single-move return is missing
ActEntryNoSingle(s) ==
  LET free == get_free_cols(s)
  IN  /\ stages' = {}
      /\ IF free = << >> THEN ret' = 0 /\ pc' = "returned"
         ELSE ret' = None /\ pc' = "win"
      /\ UNCHANGED <<board, turn, Q, simulations, alpha, rng, runs, qfile, error, searchVars, searches, peer, saver>>

\* mutant of ActEntry: the full-board return is missing
ActEntryNoFull(s) ==
  LET free == get_free_cols(s)
  IN  /\ stages' = {}
      /\ IF Len(free) = 1 THEN ret' = free[1] /\ pc' = "returned"
         ELSE ret' = None /\ pc' = "win"
      /\ UNCHANGED <<board, turn, Q, simulations, alpha, rng, runs, qfile, error, searchVars, searches, peer, saver>>

\* act up to the single-move return
ActEntry(s) ==
  LET free == get_free_cols(s)
  IN  /\ stages' = {}
      /\ IF free = << >> THEN ret' = 0 /\ pc' = "returned"
         ELSE IF Len(free) = 1 THEN ret' = free[1] /\ pc' = "returned"
         ELSE ret' = None /\ pc' = "win"
      /\ UNCHANGED <<board, turn, Q, simulations, alpha, rng, runs, qfile, error, searchVars, searches, peer, saver>>

\* the driver calls policy.act(state.board)
ActCall ==
  /\ Playing
  /\ ActEntry(board)

\* a driver that lets Aha decide only once at most LateEmpty cells are empty
ActCallLate ==
  /\ Playing
  /\ Cardinality({i \in DOMAIN board : board[i] = 0}) <= LateEmpty
  /\ ActEntry(board)

\* a caller that asks for a decision on a finished game
ActCallFinal ==
  /\ pc = "idle"
  /\ is_final(board)
  /\ searches < MaxSearches
  /\ ActEntry(board)

\* mutant of ActWin: a stored action for the position is returned first
ActWinAfterQ ==
  /\ pc = "win"
  /\ LET free == get_free_cols(board)
         win == _winning_move(board, current_player(board))
         cands == Candidates(Q, board)
     IN  /\ stages' = stages \cup {"win"}
         /\ IF cands # << >> /\ LegalIn(board, free, BestQAction(cands))
            THEN ret' = BestQAction(cands) /\ pc' = "returned" /\ error' = error
            ELSE IF win.col # None /\ LegalIn(board, free, win.col)
                 THEN ret' = win.col /\ pc' = "returned" /\ error' = error
                 ELSE ret' = ret /\ pc' = "block" /\ error' = error
  /\ UNCHANGED <<board, turn, Q, simulations, alpha, rng, runs, qfile, searchVars, searches, peer, saver>>

\* 1) Intentamos ganar inmediatamente
ActWin ==
  /\ pc = "win"
  /\ LET free == get_free_cols(board)
         win == _winning_move(board, current_player(board))
     IN  /\ stages' = stages \cup {"win"}
         /\ IF win.raised THEN error' = "IllegalMove" /\ pc' = "raised" /\ ret' = ret
            ELSE IF win.col # None /\ LegalIn(board, free, win.col)
                 THEN ret' = win.col /\ pc' = "returned" /\ error' = error
                 ELSE ret' = ret /\ pc' = "block" /\ error' = error
  /\ UNCHANGED <<board, turn, Q, simulations, alpha, rng, runs, qfile, searchVars, searches, peer, saver>>

\* 2) Intentamos bloquear una victoria inmediata del rival
ActBlock ==
  /\ pc = "block"
  /\ LET free == get_free_cols(board)
         block == _block_enemy(board, current_player(board))
     IN  /\ stages' = stages \cup {"block"}
         /\ IF block.raised THEN error' = "IllegalMove" /\ pc' = "raised" /\ ret' = ret
            ELSE IF block.col # None /\ LegalIn(board, free, block.col)
                 THEN ret' = block.col /\ pc' = "returned" /\ error' = error
                 ELSE ret' = ret /\ pc' = "qlookup" /\ error' = error
  /\ UNCHANGED <<board, turn, Q, simulations, alpha, rng, runs, qfile, searchVars, searches, peer, saver>>

\* mutant of QLookup: the best stored action is returned without the
\* legality test
QLookupUnchecked(q, s) ==
  LET candidates == Candidates(q, s)
  IN  IF candidates # << >> THEN BestQAction(candidates) ELSE None

\* the action the Q lookup of act returns, None when it falls through
QLookup(q, s) ==
  LET candidates == Candidates(q, s)
  IN  IF candidates # << >> /\ LegalIn(s, get_free_cols(s), BestQAction(candidates))
      THEN BestQAction(candidates)
      ELSE None

\* 3) the Q lookup; when it falls through, _mcts starts: root = Node(root_state)
ActQ ==
  /\ pc = "qlookup"
  /\ stages' = stages \cup {"qlookup"}
  /\ IF QLookup(Q, board) # None
     THEN /\ ret' = QLookup(Q, board)
          /\ pc' = "returned"
          /\ UNCHANGED searchVars
     ELSE /\ ret' = ret
          /\ pc' = "mcts"
          /\ tree' = [x \in {<< >>} |->
                        NewNode([board |-> board, player |-> current_player(board)])]
          /\ iters' = 0
          /\ node' = << >>
          /\ cur' = NoState
          /\ experience' = << >>
  /\ UNCHANGED <<board, turn, Q, simulations, alpha, rng, runs, qfile, error, searches, peer, saver>>

\* mutant of RolloutCols: the column is drawn among all columns
RolloutColsAll(b) == 0..(COLS - 1)

\* the columns _rollout draws from: free = current.get_free_cols()
RolloutCols(b) == Range(get_free_cols(b))

\* the actions expansion draws from: node.untried_actions
ExpansionCols(n) == Range(n.untried)

\* 1) selection and 2) expansion of one iteration; _rollout then copies the
\* state of the node reached
MctsSelectExpand ==
  /\ pc = "mcts"
  /\ iters < simulations
  /\ stages' = stages \cup {"mcts"}
  /\ \E p \in Select(tree, Q, << >>) :
       IF ~is_final(tree[p].state.board) /\ tree[p].untried # << >>
       THEN \E action \in ExpansionCols(tree[p]) :
              /\ Drawn(rng, tree[p].untried, action)
              /\ rng' = Advance(rng)
              /\ IF transition(tree[p].state, action) = IllegalMove
                 THEN /\ error' = "IllegalMove"
                      /\ pc' = "raised"
                      /\ UNCHANGED <<tree, node, cur>>
                 ELSE /\ tree' = Expand(tree, p, action)
                      /\ node' = Append(p, action)
                      /\ cur' = tree'[node'].state
                      /\ pc' = "rollout"
                      /\ error' = error
       ELSE /\ node' = p
            /\ cur' = tree[p].state
            /\ pc' = "rollout"
            /\ UNCHANGED <<tree, error, rng>>
  /\ UNCHANGED <<board, turn, Q, simulations, alpha, runs, qfile, ret, iters, experience, searches, peer, saver>>

\* mutant of RolloutStep: the state after the move is dropped,
\* current.transition(col) without the assignment
RolloutStepStay ==
  /\ pc = "rollout"
  /\ ~is_final(cur.board)
  /\ get_free_cols(cur.board) # << >>
  /\ \E col \in RolloutCols(cur.board) :
       /\ Drawn(rng, get_free_cols(cur.board), col)
       /\ IF transition(cur, col) = IllegalMove
          THEN error' = "IllegalMove" /\ pc' = "raised" /\ cur' = cur
          ELSE error' = error /\ pc' = pc /\ cur' = cur
  /\ rng' = Advance(rng)
  /\ UNCHANGED <<board, turn, Q, simulations, alpha, runs, qfile, ret, stages, tree, iters, node,
                 experience, searches, peer, saver>>

\* one pass of the loop of _rollout
RolloutStep ==
  /\ pc = "rollout"
  /\ ~is_final(cur.board)
  /\ get_free_cols(cur.board) # << >>
  /\ \E col \in RolloutCols(cur.board) :
       /\ Drawn(rng, get_free_cols(cur.board), col)
       /\ IF transition(cur, col) = IllegalMove
          THEN error' = "IllegalMove" /\ pc' = "raised" /\ cur' = cur
          ELSE error' = error /\ pc' = pc /\ cur' = transition(cur, col)
  /\ rng' = Advance(rng)
  /\ UNCHANGED <<board, turn, Q, simulations, alpha, runs, qfile, ret, stages, tree, iters, node,
                 experience, searches, peer, saver>>

\* mutant of Backprop: an iteration whose selection ended at a node that was
\* already terminal is dropped without backpropagation
BackpropSkipTerminal ==
  /\ pc = "rollout"
  /\ is_final(cur.board) \/ get_free_cols(cur.board) = << >>
  /\ LET reward == Reward2(cur.board, current_player(board))
         skip == is_final(tree[node].state.board) /\ tree[node].visits >= 1
     IN  /\ tree' = IF skip THEN tree ELSE Backpropagate(tree, node, reward)
         /\ experience' = IF skip THEN experience
                          ELSE experience \o Experience(tree, node, reward)
  /\ iters' = iters + 1
  /\ node' = << >>
  /\ cur' = NoState
  /\ pc' = "mcts"
  /\ UNCHANGED <<board, turn, Q, simulations, alpha, rng, runs, qfile, ret, stages, error, searches, peer, saver>>

\* mutant of Backprop: the reward is taken for the player to move at the node
\* the rollout starts from
BackpropNodePlayer ==
  /\ pc = "rollout"
  /\ is_final(cur.board) \/ get_free_cols(cur.board) = << >>
  /\ LET reward == Reward2(cur.board, tree[node].state.player)
     IN  /\ tree' = Backpropagate(tree, node, reward)
         /\ experience' = experience \o Experience(tree, node, reward)
  /\ iters' = iters + 1
  /\ node' = << >>
  /\ cur' = NoState
  /\ pc' = "mcts"
  /\ UNCHANGED <<board, turn, Q, simulations, alpha, rng, runs, qfile, ret, stages, error, searches, peer, saver>>

\* mutant of Backprop: the table learns from each iteration as soon as it is
\* backpropagated
BackpropLearning ==
  /\ pc = "rollout"
  /\ is_final(cur.board) \/ get_free_cols(cur.board) = << >>
  /\ LET reward == Reward2(cur.board, current_player(board))
     IN  /\ tree' = Backpropagate(tree, node, reward)
         /\ experience' = experience \o Experience(tree, node, reward)
         /\ Q' = ApplyExperience(Q, Experience(tree, node, reward), alpha)
  /\ iters' = iters + 1
  /\ node' = << >>
  /\ cur' = NoState
  /\ pc' = "mcts"
  /\ UNCHANGED <<board, turn, simulations, alpha, rng, runs, qfile, ret, stages, error, searches, peer, saver>>

\* the end of _rollout and 4) backpropagation
Backprop ==
  /\ pc = "rollout"
  /\ is_final(cur.board) \/ get_free_cols(cur.board) = << >>
  /\ LET reward == Reward2(cur.board, current_player(board))
     IN  /\ tree' = Backpropagate(tree, node, reward)
         /\ experience' = experience \o Experience(tree, node, reward)
  /\ iters' = iters + 1
  /\ node' = << >>
  /\ cur' = NoState
  /\ pc' = "mcts"
  /\ UNCHANGED <<board, turn, Q, simulations, alpha, rng, runs, qfile, ret, stages, error, searches, peer, saver>>

\* the action _mcts returns once the loop is over
FinalAction(t, root_board) ==
  IF t[<< >>].children = << >>
  THEN get_free_cols(root_board)[1]
  ELSE MostVisited(t)

\* the instance whose table q_file holds in full after a save of this
\* instance: its own when the write went through, nobody's when the dump broke
\* off, and when open() failed the other's if it saved last (a failed save
\* of the last saver leaves the file behind its table)
WroteLast(s, outcome) ==
  CASE outcome = "written" -> "self"
    [] outcome = "denied" -> IF s = "peer" THEN "peer" ELSE "none"
    [] OTHER -> "none"

\* mutant of MctsFinish: the table is written before the updates are applied
MctsFinishSaveFirst ==
  /\ pc = "mcts"
  /\ iters = simulations
  /\ Q' = ApplyExperience(Q, experience, alpha)
  /\ \E outcome \in WriteOutcomes :
       /\ qfile' = save_Q(Q, qfile, outcome)
       /\ saver' = WroteLast(saver, outcome)
  /\ IF tree[<< >>].children = << >> /\ get_free_cols(board) = << >>
     THEN error' = "IndexError" /\ pc' = "raised" /\ ret' = ret
     ELSE error' = error /\ pc' = "returned" /\ ret' = FinalAction(tree, board)
  /\ searches' = searches + 1
  /\ UNCHANGED <<board, turn, simulations, alpha, rng, runs, stages, tree, iters, node, cur,
                 experience, peer>>

\* after the loop: the Q updates, save_Q (the write may fail) and the choice
MctsFinish ==
  /\ pc = "mcts"
  /\ iters = simulations
  /\ Q' = ApplyExperience(Q, experience, alpha)
  /\ \E outcome \in WriteOutcomes :
       /\ qfile' = save_Q(Q', qfile, outcome)
       /\ saver' = WroteLast(saver, outcome)
  /\ IF tree[<< >>].children = << >> /\ get_free_cols(board) = << >>
     THEN error' = "IndexError" /\ pc' = "raised" /\ ret' = ret
     ELSE error' = error /\ pc' = "returned" /\ ret' = FinalAction(tree, board)
  /\ searches' = searches + 1
  /\ UNCHANGED <<board, turn, simulations, alpha, rng, runs, stages, tree, iters, node, cur,
                 experience, peer>>

\* state = state.transition(action) in play_game; the locals of act are gone
ActReturn ==
  /\ pc = "returned"
  /\ IF transition([board |-> board, player |-> turn], ret) = IllegalMove
     THEN error' = "driver:IllegalMove" /\ pc' = "crashed" /\ UNCHANGED <<board, turn>>
     ELSE /\ board' = transition([board |-> board, player |-> turn], ret).board
          /\ turn' = -turn
          /\ pc' = "idle"
          /\ error' = error
  /\ ret' = None
  /\ stages' = {}
  /\ tree' = NoTree
  /\ iters' = 0
  /\ node' = << >>
  /\ cur' = NoState
  /\ experience' = << >>
  /\ UNCHANGED <<Q, simulations, alpha, rng, runs, qfile, searches, peer, saver>>

Next ==
  \/ mount
  \/ RandomMove
  \/ ActCall
  \/ ActWin
  \/ ActBlock
  \/ ActQ
  \/ MctsSelectExpand
  \/ RolloutStep
  \/ Backprop
  \/ MctsFinish
  \/ ActReturn

Spec == Init /\ [][Next]_vars

\* the same game with a caller that also asks on finished games
NextDefensive == Next \/ ActCallFinal

SpecDefensive == Init /\ [][NextDefensive]_vars

\* the game in which random movers open and Aha decides late
NextLate ==
  \/ mount
  \/ RandomMove
  \/ ActCallLate
  \/ ActWin
  \/ ActBlock
  \/ ActQ
  \/ MctsSelectExpand
  \/ RolloutStep
  \/ Backprop
  \/ MctsFinish
  \/ ActReturn

SpecLate == InitLate /\ [][NextLate]_vars

\* the statements of act and _mcts: a call that has been made runs on, the
\* interpreter executes the next statement of the one thread there is
ActSteps ==
  \/ ActWin
  \/ ActBlock
  \/ ActQ
  \/ MctsSelectExpand
  \/ RolloutStep
  \/ Backprop
  \/ MctsFinish

\* a driver that lets Aha decide only once at most LiveEmpty cells are empty
ActCallLive ==
  /\ Playing
  /\ Cardinality({i \in DOMAIN board : board[i] = 0}) <= LiveEmpty
  /\ ActEntry(board)

NextLive ==
  \/ mount
  \/ RandomMove
  \/ ActCallLive
  \/ ActWin
  \/ ActBlock
  \/ ActQ
  \/ MctsSelectExpand
  \/ RolloutStep
  \/ Backprop
  \/ MctsFinish
  \/ ActReturn

\* Aha(simulations=Sims) where there is no q_file yet
InitLive ==
  /\ qfile = NoFile
  /\ Begin
  /\ alpha = alphaNum
  /\ rng = Entropy
  /\ simulations = Sims

SpecLive == InitLive /\ [][NextLive]_vars /\ WF_vars(ActSteps)

\* ------------------------------------------------ decisions under a seed
\* Aha(simulations=...) whose rng was replaced by a seeded generator
InitSeeded ==
  /\ qfile \in Files
  /\ Begin
  /\ alpha = alphaNum
  /\ simulations = SimsSeeded
  /\ \E seed \in 0..(NumSeeds - 1) : rng = Seeded(seed)

\* policy.mount() has run when the policy is asked, as in play_game
ActCallMounted ==
  /\ Playing
  /\ Q = load_Q(qfile).table
  /\ ActEntry(board)

\* the decision is noted and the same decision is set up again: the same
\* board, a policy constructed anew, the q_file and the seed of the first run
RunAgain ==
  /\ pc = "returned"
  /\ Len(runs.cols) < Runs - 1
  /\ runs' = [runs EXCEPT !.cols = Append(@, ret)]
  /\ qfile' = runs.file
  /\ Q' = EmptyQ
  /\ rng' = Seeded(rng.seed)
  /\ pc' = "idle"
  /\ ret' = None
  /\ stages' = {}
  /\ tree' = NoTree
  /\ iters' = 0
  /\ node' = << >>
  /\ cur' = NoState
  /\ experience' = << >>
  /\ searches' = 0
  /\ UNCHANGED <<board, turn, simulations, alpha, error, peer, saver>>

NextSeeded ==
  \/ mount
  \/ ActCallMounted
  \/ ActWin
  \/ ActBlock
  \/ ActQ
  \/ MctsSelectExpand
  \/ RolloutStep
  \/ Backprop
  \/ MctsFinish
  \/ RunAgain

SpecSeeded == InitSeeded /\ [][NextSeeded]_vars

\* ------------------------------------------------- game after game
\* Aha() on a q_file that may also be corrupt
InitStore ==
  /\ qfile \in Files \cup {CorruptFile}
  /\ Begin
  /\ alpha = alphaNum
  /\ rng = Entropy
  /\ simulations = Sims

Empties(b) == Cardinality({i \in DOMAIN b : b[i] = 0})

\* whether act on board b would reach _mcts
NeedsSearch(q, b) ==
  /\ Len(get_free_cols(b)) >= 2
  /\ _winning_move(b, current_player(b)).col = None
  /\ _block_enemy(b, current_player(b)).col = None
  /\ QLookup(q, b) = None

\* the loop of play_single_game goes on; once MaxSearches searches have run
\* only the last LateEmpty moves of a game are played
Ongoing ==
  /\ pc = "idle"
  /\ ~is_final(board)
  /\ searches < MaxSearches \/ Empties(board) <= LateEmpty

\* RandomBot.act followed by state.transition(action)
RandomMoveOn ==
  /\ Ongoing
  /\ \E c \in {x \in 0..(COLS - 1) : board[Idx(0, x)] = 0} :
       /\ board' = transition([board |-> board, player |-> turn], c).board
       /\ turn' = -turn
  /\ UNCHANGED <<Q, simulations, alpha, rng, runs, qfile, pc, ret, stages, error,
                 searchVars, searches, peer, saver>>

\* Aha is asked in the last LateEmpty moves of a game
ActCallOn ==
  /\ Ongoing
  /\ Empties(board) <= LateEmpty
  /\ searches < MaxSearches \/ ~NeedsSearch(Q, board)
  /\ ActEntry(board)

\* the next play_single_game: state = ConnectState(), then mount()
NewGame ==
  /\ pc = "idle"
  /\ is_final(board)
  /\ board' = EmptyBoard
  /\ turn' = RED
  /\ IF load_Q(qfile).raised
     THEN Q' = Q /\ error' = "load_Q" /\ pc' = "raised"
     ELSE Q' = load_Q(qfile).table /\ error' = error /\ pc' = pc
  /\ UNCHANGED <<simulations, alpha, rng, runs, qfile, ret, stages, searchVars,
                 searches, peer, saver>>

NextStore ==
  \/ mount
  \/ RandomMoveOn
  \/ ActCallOn
  \/ ActWin
  \/ ActBlock
  \/ ActQ
  \/ MctsSelectExpand
  \/ RolloutStep
  \/ Backprop
  \/ MctsFinish
  \/ ActReturn
  \/ NewGame

SpecStore == InitStore /\ [][NextStore]_vars

\* the same games with a caller that also asks for a decision on a finished
\* game
NextStoreDefensive == NextStore \/ ActCallFinal

SpecStoreDefensive == InitStore /\ [][NextStoreDefensive]_vars

\* ----- a position that comes back: the opening is played by random movers,
\* then the position reached is put to Aha again and again, and mount may be
\* called in between as at the start of a game
InitAgain ==
  /\ qfile = NoFile
  /\ Begin
  /\ alpha = alphaNum
  /\ rng = Entropy
  /\ simulations = Sims

\* the random movers play until the position is first put to Aha
RandomMoveBefore ==
  /\ runs.cols = << >>
  /\ RandomMove

\* policy.act(state.board) on the position, with at most LateEmpty empty cells
ActCallAgain ==
  /\ pc = "idle"
  /\ ~is_final(board)
  /\ Empties(board) <= LateEmpty
  /\ Len(runs.cols) < Decisions
  /\ ActEntry(board)

\* the column comes back to the caller and the position stays as it is
ActReturnKeep ==
  /\ pc = "returned"
  /\ runs' = [runs EXCEPT !.cols = Append(@, ret)]
  /\ pc' = "idle"
  /\ ret' = None
  /\ stages' = {}
  /\ tree' = NoTree
  /\ iters' = 0
  /\ node' = << >>
  /\ cur' = NoState
  /\ experience' = << >>
  /\ UNCHANGED <<board, turn, Q, simulations, alpha, rng, qfile, error, searches, peer, saver>>

\* Aha.mount between two decisions
Remount ==
  /\ pc = "idle"
  /\ runs.cols # << >>
  /\ Q' = load_Q(qfile).table
  /\ UNCHANGED <<board, turn, simulations, alpha, rng, runs, qfile, pc, ret, stages, error,
                 searchVars, searches, peer, saver>>

NextAgain ==
  \/ RandomMoveBefore
  \/ ActCallAgain
  \/ ActWin
  \/ ActBlock
  \/ ActQ
  \/ MctsSelectExpand
  \/ RolloutStep
  \/ Backprop
  \/ MctsFinish
  \/ ActReturnKeep
  \/ Remount

SpecAgain == InitAgain /\ [][NextAgain]_vars

\* ----- two instances on one q_file: policy1 and policy2 of play_game are
\* both mounted on the same file and asked in turn.  Q is the table of the
\* instance that is being asked, peer the table of the other one.
\* the next call (mount or act) goes to the other instance
Swap ==
  /\ pc = "idle"
  /\ runs.cols # << >>
  /\ Q' = peer
  /\ peer' = Q
  /\ saver' = CASE saver = "self" -> "peer"
                 [] saver = "peer" -> "self"
                 [] OTHER -> "none"
  /\ UNCHANGED <<board, turn, simulations, alpha, rng, runs, qfile, pc, ret, stages, error,
                 searchVars, searches>>

NextShared ==
  \/ RandomMoveBefore
  \/ ActCallAgain
  \/ ActWin
  \/ ActBlock
  \/ ActQ
  \/ MctsSelectExpand
  \/ RolloutStep
  \/ Backprop
  \/ MctsFinish
  \/ ActReturnKeep
  \/ Remount
  \/ Swap

SpecShared == InitAgain /\ [][NextShared]_vars

\* ------------------------------------------- the update rule on one entry
\* The loop `for (s_key, a, r) in experience` of _mcts on a list that holds
\* the same tuple again and again: one (position, action) whose simulations
\* keep ending the same way.  alpha is any tenth in (0, 1], the table is
\* empty or a loaded one; iters counts the tuples applied.
InitUpdate ==
  /\ qfile \in Files
  /\ runs = [file |-> qfile, cols |-> << >>]
  /\ Q = load_Q(qfile).table
  /\ \E a \in 0..1, r2 \in 0..2 : experience = <<<<EmptyBoard, a, r2>>>>
  /\ alpha \in 1..alphaDen
  /\ rng = Entropy
  /\ simulations = Sims
  /\ board = EmptyBoard
  /\ turn = RED
  /\ pc = "idle"
  /\ ret = None
  /\ stages = {}
  /\ error = "none"
  /\ tree = NoTree
  /\ iters = 0
  /\ node = << >>
  /\ cur = NoState
  /\ searches = 0
  /\ peer = EmptyQ
  /\ saver = "none"

LearnStep ==
  /\ pc = "idle"
  /\ iters < MaxUpdates
  /\ Q' = ApplyExperience(Q, experience, alpha)
  /\ iters' = iters + 1
  /\ UNCHANGED <<board, turn, simulations, alpha, rng, runs, qfile, pc, ret, stages,
                 error, tree, node, cur, experience, searches, peer, saver>>

SpecUpdate == InitUpdate /\ [][LearnStep]_vars

\* ================================================================= claims
\* the columns that win at once for player p on board b
ImmediateWins(b, p) ==
  {c \in 0..(COLS - 1) : is_applicable(b, c) /\ get_winner(Drop(b, c, p)) = p}

Lowest(S) == CHOOSE c \in S : \A d \in S : c <= d

NumFree(b) == Len(get_free_cols(b))

Searched == "mcts" \in stages

\* C1: on a board with a legal column, whatever the Q-store holds, the column
\* act returns is legal on that board.
C1_ReturnsLegal ==
  (pc = "returned" /\ NumFree(board) >= 1) => is_applicable(board, ret)

\* C1 witness: the best stored action for the position is a full column, and
\* the search that ran instead returned a legal column
C1_Witness ==
  /\ pc = "returned"
  /\ Searched
  /\ Q.base = "first"
  /\ ~is_applicable(board, 0)
  /\ is_applicable(board, ret)

\* C2: when some legal column wins at once for the mover, act returns a column
\* that wins at once for the mover, also when the opponent threatens to win.
C2_TakesWin ==
  (pc = "returned" /\ ImmediateWins(board, turn) # {})
    => ret \in ImmediateWins(board, turn)

\* C2 witness: both players can win at once and the win is taken, not the block
C2_Witness ==
  /\ pc = "returned"
  /\ NumFree(board) >= 2
  /\ ImmediateWins(board, turn) # {}
  /\ ImmediateWins(board, -turn) # {}
  /\ ret \in ImmediateWins(board, turn)
  /\ ret \notin ImmediateWins(board, -turn)

\* C3: when the mover cannot win at once and exactly one column wins for the
\* opponent on their next move, act returns that column.
C3_BlocksSingleThreat ==
  (/\ pc = "returned"
   /\ ImmediateWins(board, turn) = {}
   /\ Cardinality(ImmediateWins(board, -turn)) = 1)
    => ret \in ImmediateWins(board, -turn)

\* C3 witness: the block stage returned the only threatened column
C3_Witness ==
  /\ pc = "returned"
  /\ stages = {"win", "block"}
  /\ ImmediateWins(board, turn) = {}
  /\ ImmediateWins(board, -turn) = {ret}
  /\ NumFree(board) = COLS

\* C4: with exactly one legal column act returns it and runs neither the
\* win/block heuristics, nor the Q lookup, nor any MCTS iteration.
C4_SingleMoveShortcut ==
  (pc # "idle" /\ NumFree(board) = 1)
    => /\ pc = "returned"
       /\ ret = get_free_cols(board)[1]
       /\ stages = {}
       /\ tree = NoTree
       /\ iters = 0

\* C4 witness: the only legal column is returned although the Q-store holds
\* entries for the position
C4_Witness ==
  /\ pc = "returned"
  /\ NumFree(board) = 1
  /\ ret = get_free_cols(board)[1]
  /\ Candidates(Q, board) # << >>

\* the column the two lookaheads give on board b with p to move
Tactical(b, p) ==
  IF ImmediateWins(b, p) # {} THEN Lowest(ImmediateWins(b, p))
  ELSE Lowest(ImmediateWins(b, -p))

\* C5: with two or more legal columns and an immediate win or block, the
\* column returned depends on the board alone, not on the Q-store, and neither
\* the Q lookup nor an MCTS iteration is run.
C5_TacticsFirst ==
  (/\ pc = "returned"
   /\ NumFree(board) >= 2
   /\ ImmediateWins(board, turn) \cup ImmediateWins(board, -turn) # {})
    => /\ ret = Tactical(board, turn)
       /\ stages \subseteq {"win", "block"}
       /\ tree = NoTree
       /\ iters = 0

\* C5 witness: the Q-store's best action for the position is legal and is not
\* the column returned
C5_Witness ==
  /\ pc = "returned"
  /\ NumFree(board) >= 2
  /\ ImmediateWins(board, turn) \cup ImmediateWins(board, -turn) # {}
  /\ QLookup(Q, board) # None
  /\ QLookup(Q, board) # ret

\* C6: on every board of a game that red opens, the mover act derives from
\* the piece counts is the player whose turn it is.
C6_MoverFromCounts == current_player(board) = turn

\* C6 witness: act runs its lookahead for yellow
C6_Witness ==
  /\ pc = "win"
  /\ turn = YELLOW
  /\ current_player(board) = YELLOW

C8_OnlyLegalApplied == error # "IllegalMove" /\ pc # "raised"

\* C8 witness: a call that ran both lookaheads and a whole search, whose tree
\* was expanded below a child of the root
C8_Witness ==
  /\ pc = "returned"
  /\ stages = {"win", "block", "qlookup", "mcts"}
  /\ iters = simulations
  /\ \E p \in DOMAIN tree : Len(p) >= 2
  /\ error = "none"

\* C9: the column the search stage returns is the incoming action of a child
\* of the root whose visit count is maximal among the root's children.
C9_MostVisitedReturned ==
  (pc = "returned" /\ Searched) =>
    /\ ret \in Range(tree[<< >>].children)
    /\ \A a \in Range(tree[<< >>].children) :
         tree[<<a>>].visits <= tree[<<ret>>].visits

\* C9 witness: another child of the root has a higher average value than the
\* child whose action is returned
C9_Witness ==
  /\ pc = "returned"
  /\ Searched
  /\ \E a \in Range(tree[<< >>].children) :
       tree[<<a>>].value2 * tree[<<ret>>].visits
         > tree[<<ret>>].value2 * tree[<<a>>].visits

RECURSIVE SumVisits(_, _)
SumVisits(t, acts) ==
  IF acts = << >> THEN 0
  ELSE t[<<Head(acts)>>].visits + SumVisits(t, Tail(acts))

EpisodeOver == (pc = "mcts" /\ iters = simulations) \/ (pc = "returned" /\ Searched)

\* C10: at the end of a search episode the root's visit count is
\* `simulations`; when the root is not terminal the visit counts of its
\* children sum to `simulations` (iterations whose selection ends at a
\* terminal node included), and a terminal root has no children.
C10_RootVisitsSum ==
  EpisodeOver =>
    /\ tree[<< >>].visits = simulations
    /\ ~is_final(tree[<< >>].state.board) =>
         SumVisits(tree, tree[<< >>].children) = simulations
    /\ is_final(tree[<< >>].state.board) => tree[<< >>].children = << >>

\* C10 witness: the episode is over and a terminal node of the tree was
\* visited again after the iteration that created it
C10_Witness ==
  /\ EpisodeOver
  /\ \E p \in DOMAIN tree : is_final(tree[p].state.board) /\ tree[p].visits >= 2

\* C11: in every node of the search tree, a child has a second visit only
\* once every legal action of the node has been expanded into a child and
\* every child has been visited.
C11_ExpandBeforeRevisit ==
  \A p \in DOMAIN tree : \A a \in Range(tree[p].children) :
    tree[Append(p, a)].visits >= 2 =>
      /\ tree[p].untried = << >>
      /\ Range(tree[p].children) = Range(get_free_cols(tree[p].state.board))
      /\ \A b \in Range(tree[p].children) : tree[Append(p, b)].visits >= 1

\* C11 witness: a child of a node with several legal actions has been visited
\* twice
C11_Witness ==
  \E p \in DOMAIN tree : \E a \in Range(tree[p].children) :
    /\ tree[Append(p, a)].visits >= 2
    /\ Len(tree[p].children) >= 2

\* C12: two decisions on the empty starting board with the same
\* configuration, the same pre-loaded Q-store and the same seed of the
\* generator the policy owns return the same column.
C12_SameSeedSameColumn ==
  (pc = "returned" /\ runs.cols # << >>) => ret = runs.cols[1]

\* C13: for every table, save_Q followed by load_Q on the same q_file, the
\* write succeeding, gives back the table: the same (position key, action)
\* keys with the same values.
C13_SaveLoadRoundTrip == load_Q(save_Q(Q, qfile, "written")).table = Q

\* C13 witness: the table a new game loaded from the file the search of the
\* game before had written holds several entries, one of them for a board
\* with red and yellow pieces
C13_Witness ==
  /\ pc = "idle"
  /\ board = EmptyBoard
  /\ searches >= 1
  /\ Len(Q.upd) >= 2
  /\ qfile = save_Q(Q, qfile, "written")
  /\ \E i \in 1..Len(Q.upd) : {RED, YELLOW} \subseteq Range(Q.upd[i][1])

\* whether load_Q cannot read the file
Unreadable(f) == f.base = "absent" \/ ~pickle_load(f.bytes).ok

\* C14: a persistence failure is never surfaced.  No exception escapes;
\* after a load of an absent or unreadable file the table is empty; and a
\* search whose save did not go through still applies its updates to the
\* table in memory and returns the action of the search.
C14_FailuresSilent ==
  /\ [](pc # "raised" /\ error = "none")
  /\ []((pc = "idle" /\ board = EmptyBoard /\ Unreadable(qfile)) => Q = EmptyQ)
  /\ [][(pc = "mcts" /\ iters = simulations /\ qfile' # TableFile(Q'))
         => /\ Q' = ApplyExperience(Q, experience, alpha)
            /\ pc' = "returned"
            /\ ret' = MostVisited(tree)]_vars

\* C14 witness: a new game has loaded the file a search left cut off, and the
\* table is empty
C14_Witness ==
  /\ pc = "idle"
  /\ board = EmptyBoard
  /\ searches >= 1
  /\ qfile.base # "absent"
  /\ Len(qfile.bytes) = 1
  /\ Q = EmptyQ

\* the stored value of the entry the first experience tuple is about, and the
\* reward of that tuple, both in units of 1 / QDen
EntryValue(q) == QGet(q, experience[1][1], experience[1][2])

EntryReward == experience[1][3] * Neutral

Between(x, lo, hi) == (lo <= x /\ x <= hi) \/ (hi <= x /\ x <= lo)

\* C15 as claimed: the new value q + alpha * (r - q) lies between q and r,
\* strictly between them when 0 < alpha < 1 and q # r, it equals r when
\* alpha = 1 and equals q when q = r.
C15_StrictlyBetween ==
  [][(experience # << >> /\ iters' = iters + 1) =>
       LET q == EntryValue(Q)
           r == EntryReward
           new == EntryValue(Q')
       IN  /\ Between(new, q, r)
           /\ (alpha < alphaDen /\ q # r) => (new # q /\ new # r)
           /\ alpha = alphaDen => new = r
           /\ q = r => new = q]_vars

\* the distance from x to y, and whether a step of d is kept at the
\* precision of the stored values: neither alpha * d nor (1 - alpha) * d is
\* below one unit
Dist(x, y) == IF x <= y THEN y - x ELSE x - y

Kept(al, d) == al * d >= alphaDen /\ (alphaDen - al) * d >= alphaDen

\* C15 as amended: the new value lies between q and r, the ends included; it
\* equals r when alpha = 1 and q when q = r; it is strictly between them
\* when 0 < alpha < 1 and the step is kept at the precision of the stored
\* values.
C15_Between ==
  [][(experience # << >> /\ iters' = iters + 1) =>
       LET q == EntryValue(Q)
           r == EntryReward
           new == EntryValue(Q')
       IN  /\ Between(new, q, r)
           /\ (alpha < alphaDen /\ Kept(alpha, Dist(q, r))) => (new # q /\ new # r)
           /\ alpha = alphaDen => new = r
           /\ q = r => new = q]_vars

\* C15 witness: with alpha below 1, an entry that began at the neutral prior
\* has moved towards the reward of a win and is strictly between the two
C15_Witness ==
  /\ experience # << >>
  /\ iters >= 2
  /\ Q.base = "none"
  /\ alpha < alphaDen
  /\ EntryReward = QDen
  /\ Neutral < EntryValue(Q)
  /\ EntryValue(Q) < QDen

\* the values the table holds: those of the loaded file and those written
\* since
StoredValues(q) ==
  {BaseEntries(q.base)[i][2] : i \in 1..Len(BaseEntries(q.base))}
    \cup {q.upd[i][3] : i \in 1..Len(q.upd)}

\* C16: starting from an empty table or a loaded table whose values lie in
\* [0,1], after any sequence of decide calls every value the Q-store holds
\* lies in [0,1].
C16_ValuesInUnitInterval == \A v \in StoredValues(Q) : 0 <= v /\ v <= QDen

\* C16 witness: after a search the table holds an entry that was updated
\* towards a loss more than once and one that was updated towards a win
C16_Witness ==
  /\ searches >= 1
  /\ \E i \in 1..Len(Q.upd) : Q.upd[i][3] < 3 * (QDen \div 10)
  /\ \E i \in 1..Len(Q.upd) : Q.upd[i][3] > Neutral

\* the stored entries for board b whose action is legal on b, in the order
\* of the table
LegalCandidates(q, b) ==
  SelectSeq(Candidates(q, b), LAMBDA c : LegalIn(b, get_free_cols(b), c[1]))

\* the action of the first entry among those of maximal value
FirstMax(cands) ==
  LET best == {k \in 1..Len(cands) : \A j \in 1..Len(cands) : cands[j][2] <= cands[k][2]}
  IN  cands[Lowest(best)][1]

\* the Q lookup has run and returned an action / has handed over to _mcts
QDecided == "qlookup" \in stages /\ pc = "returned" /\ ~Searched

QDeferred == "qlookup" \in stages /\ tree # NoTree

\* the Q lookup has run and the table is as the lookup found it
AfterLookup == "qlookup" \in stages /\ (Searched => pc \in {"mcts", "rollout"})

\* C17 as claimed: the Q lookup returns, among the entries stored for the
\* position whose action is legal, the action of maximal value (the first
\* found on ties); when no entry is stored for the position the search
\* decides.
C17_MaxAmongLegal ==
  AfterLookup =>
    /\ LegalCandidates(Q, board) # << >> =>
         (QDecided /\ ret = FirstMax(LegalCandidates(Q, board)))
    /\ Candidates(Q, board) = << >> => QDeferred

\* C17 as amended: the Q lookup takes the action of maximal value (the first
\* found on ties) among all entries stored for the position and returns it
\* when it is legal; when it is not legal, or no entry is stored for the
\* position, the search decides.  Actions with no entry are not candidates.
C17_TopIfLegal ==
  AfterLookup =>
    IF /\ Candidates(Q, board) # << >>
       /\ LegalIn(board, get_free_cols(board), FirstMax(Candidates(Q, board)))
    THEN QDecided /\ ret = FirstMax(Candidates(Q, board))
    ELSE QDeferred

\* C17 witness: two legal actions tie for the maximal stored value and the
\* one stored first is returned, while a legal action with no entry is not
C17_Witness ==
  /\ QDecided
  /\ Q.base = "first"
  /\ ret = 0
  /\ is_applicable(board, COLS - 1)
  /\ QGet(Q, board, COLS - 1) = QGet(Q, board, 0)

\* the reward, in halves, that the step ending an iteration adds to the root
RewardAdded == tree'[<< >>].value2 - tree[<< >>].value2

\* C18: a rollout returns 1.0 exactly when the terminal state it reaches is
\* won by the root player, 0.5 exactly when it is a draw and 0.0 exactly
\* when it is won by the opponent of the root player, whichever player is to
\* move at the node it starts from.
C18_RolloutReward ==
  [][(pc = "rollout" /\ pc' = "mcts") =>
       LET root_player == tree[<< >>].state.player
           winner == get_winner(cur.board)
       IN  /\ is_final(cur.board)
           /\ root_player = turn
           /\ RewardAdded = 2 <=> winner = root_player
           /\ RewardAdded = 1 <=> winner = 0
           /\ RewardAdded = 0 <=> winner = -root_player]_vars

\* C18 witness: a rollout that started where the opponent was to move was won
\* by the root player and counted 1.0, and one that started where the root
\* player was to move was lost and counted 0.0
C18_Witness ==
  /\ pc = "mcts"
  /\ \E p \in DOMAIN tree :
       /\ Len(p) = 1
       /\ tree[p].state.player # tree[<< >>].state.player
       /\ tree[p].visits = 1
       /\ tree[p].value2 = 2
  /\ \E p \in DOMAIN tree :
       /\ Len(p) = 2
       /\ tree[p].state.player = tree[<< >>].state.player
       /\ tree[p].visits = 1
       /\ tree[p].value2 = 0

\* the step at the end of _mcts that applies the episode's updates and saves
SearchEnds == pc = "mcts" /\ iters = simulations

\* a write that did not go through: the file is as it was or cannot be read
WriteFailed == qfile' = qfile \/ Unreadable(qfile')

\* C19: within an act call only the end of the search changes the Q-store:
\* the call's entry and its win, block and Q-lookup stages, the iterations
\* of the search and the return leave the table and the file as they are,
\* and the end of the search applies all updates of the episode to the
\* table and then writes the file once, which then holds the updated table
\* unless the write fails.
C19_OnlySearchTouchesStore ==
  [][/\ (pc = "idle" /\ pc' # "idle") => (Q' = Q /\ qfile' = qfile)
     /\ (pc # "idle" /\ ~SearchEnds) => (Q' = Q /\ qfile' = qfile)
     /\ SearchEnds =>
          /\ Q' = ApplyExperience(Q, experience, alpha)
          /\ qfile' = TableFile(Q') \/ WriteFailed
          /\ pc' \in {"returned", "raised"}
     /\ qfile' # qfile => SearchEnds]_vars

\* C19 witness: after a search whose episode was applied and written, a
\* later act call has returned before the search stage with the table and
\* the file as the search left them
C19_Witness ==
  /\ pc = "returned"
  /\ ~Searched
  /\ searches >= 1
  /\ Len(Q.upd) >= 1
  /\ qfile = TableFile(Q)

RECURSIVE Reaches(_, _, _)
\* whether the node at path p is the node at path x or below it, following
\* the children of the nodes of t
Reaches(t, x, p) ==
  \/ x = p
  \/ \E i \in 1..Len(t[x].children) : Reaches(t, Append(x, t[x].children[i]), p)

\* C20: the backpropagation of one iteration adds one visit and the reward
\* of the rollout for the root player, the same at every depth, to the
\* simulated node and to each of its ancestors up to the root, and leaves
\* the visits and the value of every other node of the tree as they are.
C20_BackpropPath ==
  [][(pc = "rollout" /\ pc' = "mcts") =>
       LET reward == Reward2(cur.board, tree[<< >>].state.player)
       IN  /\ DOMAIN tree' = DOMAIN tree
           /\ \A x \in DOMAIN tree :
                IF Reaches(tree, x, node)
                THEN /\ tree'[x].visits = tree[x].visits + 1
                     /\ tree'[x].value2 = tree[x].value2 + reward
                ELSE /\ tree'[x].visits = tree[x].visits
                     /\ tree'[x].value2 = tree[x].value2]_vars

\* C20 witness: a rollout from a node two levels below the root was won by
\* the root player and counted at that node, at its parent and at the root,
\* while another child of the root kept its single visit
C20_Witness ==
  /\ pc = "mcts"
  /\ iters = 3
  /\ \E p \in DOMAIN tree :
       /\ Len(p) = 2
       /\ tree[p].visits = 1
       /\ tree[p].value2 = 2
       /\ tree[<<p[1]>>].visits = 2
       /\ tree[<<p[1]>>].value2 >= 2
       /\ tree[<< >>].visits = 3
       /\ \E c \in DOMAIN tree :
            /\ Len(c) = 1
            /\ c # <<p[1]>>
            /\ tree[c].visits = 1

\* the keys of node.children and the elements of node.untried_actions
ChildKeys(n) == Range(n.children)
Untried(n) == Range(n.untried)

\* the children and the untried actions of the node at path x split the
\* legal columns of its state, and its children are the nodes below it
WellSplit(t, x) ==
  /\ ChildKeys(t[x]) \cap Untried(t[x]) = {}
  /\ ChildKeys(t[x]) \cup Untried(t[x]) = Range(get_free_cols(t[x].state.board))
  /\ Cardinality(ChildKeys(t[x])) = Len(t[x].children)
  /\ Cardinality(Untried(t[x])) = Len(t[x].untried)
  /\ \A a \in 0..(COLS - 1) : Append(x, a) \in DOMAIN t <=> a \in ChildKeys(t[x])
  /\ is_final(t[x].state.board) => t[x].children = << >>

\* C21: in every state of a search, at every node of the tree the keys of
\* children and the untried actions are disjoint and together are the legal
\* columns of the node's state, and a terminal node has no children; a step
\* that changes the shape of the tree moves one untried action of one
\* non-terminal node to its children and adds one node, the child.
C21_ChildrenUntriedPartition ==
  /\ [](pc \in {"mcts", "rollout"} => \A x \in DOMAIN tree : WellSplit(tree, x))
  /\ [][(pc = "mcts" /\ pc' = "rollout" /\ DOMAIN tree' # DOMAIN tree) =>
          \E x \in DOMAIN tree : \E a \in Untried(tree[x]) :
            /\ ~is_final(tree[x].state.board)
            /\ DOMAIN tree' = DOMAIN tree \cup {Append(x, a)}
            /\ Append(x, a) \notin DOMAIN tree
            /\ Untried(tree'[x]) = Untried(tree[x]) \ {a}
            /\ ChildKeys(tree'[x]) = ChildKeys(tree[x]) \cup {a}
            /\ \A y \in DOMAIN tree \ {x} :
                 /\ tree'[y].untried = tree[y].untried
                 /\ tree'[y].children = tree[y].children]_vars
  /\ [][(pc \in {"mcts", "rollout"} /\ pc' \in {"mcts", "rollout"}
           /\ ~(pc = "mcts" /\ pc' = "rollout")) =>
          /\ DOMAIN tree' = DOMAIN tree
          /\ \A y \in DOMAIN tree :
               /\ tree'[y].untried = tree[y].untried
               /\ tree'[y].children = tree[y].children]_vars

\* C21 witness: a search in which one node has both children and untried
\* actions, and a terminal node with free columns is in the tree, visited
\* and without children
C21_Witness ==
  /\ pc = "mcts"
  /\ \E x \in DOMAIN tree :
       /\ tree[x].children # << >>
       /\ tree[x].untried # << >>
  /\ \E y \in DOMAIN tree :
       /\ is_final(tree[y].state.board)
       /\ tree[y].visits >= 1
       /\ tree[y].untried # << >>
       /\ tree[y].children = << >>

\* the rewards recorded for (key, a), in the order they were recorded
Rewards(exp, key, a) ==
  LET mine == SelectSeq(exp, LAMBDA e : e[1] = key /\ e[2] = a)
  IN  [i \in 1..Len(mine) |-> mine[i][3]]

RECURSIVE Learn(_, _, _)
\* the value v after one update per reward of rs, first to last
Learn(v, rs, al) ==
  IF rs = << >> THEN v
  ELSE Learn(v + (al * (rs[1] * Neutral - v)) \div alphaDen, Tail(rs), al)

\* the place of the first tuple about (key, a) in exp
FirstAbout(exp, key, a) ==
  CHOOSE i \in 1..Len(exp) :
    /\ exp[i][1] = key /\ exp[i][2] = a
    /\ \A j \in 1..(i - 1) : ~(exp[j][1] = key /\ exp[j][2] = a)

\* C22: while the iterations of a search run, the table is not modified and
\* the recorded experience only grows at its end; at the end of the search
\* every entry a tuple is about holds the value it had when the search
\* started after one update per tuple about it, in the order of recording,
\* new entries are inserted in the order of their first tuple, and every
\* other entry is as it was.
C22_UpdatesAfterIterations ==
  /\ [][(pc \in {"mcts", "rollout"} /\ ~SearchEnds) =>
          /\ Q' = Q
          /\ Len(experience') >= Len(experience)
          /\ SubSeq(experience', 1, Len(experience)) = experience]_vars
  /\ [][SearchEnds =>
          /\ Q'.base = Q.base
          /\ \A i \in 1..Len(experience) :
               LET key == experience[i][1]
                   a == experience[i][2]
               IN  /\ HasUpd(Q', key, a)
                   /\ QGet(Q', key, a) =
                        Learn(QGet(Q, key, a), Rewards(experience, key, a), alpha)
          /\ Len(Q'.upd) >= Len(Q.upd)
          /\ \A i \in 1..Len(Q.upd) :
               /\ Q'.upd[i][1] = Q.upd[i][1]
               /\ Q'.upd[i][2] = Q.upd[i][2]
               /\ Rewards(experience, Q.upd[i][1], Q.upd[i][2]) = << >>
                    => Q'.upd[i] = Q.upd[i]
          /\ \A i \in (Len(Q.upd) + 1)..Len(Q'.upd) :
               /\ Rewards(experience, Q'.upd[i][1], Q'.upd[i][2]) # << >>
               /\ \A j \in (Len(Q.upd) + 1)..(i - 1) :
                    FirstAbout(experience, Q'.upd[j][1], Q'.upd[j][2])
                      < FirstAbout(experience, Q'.upd[i][1], Q'.upd[i][2])]_vars

\* C22 witness: a search on a loaded table whose selection read priors has
\* ended, and two of its tuples are about the same entry with different
\* rewards
C22_Witness ==
  /\ pc = "returned"
  /\ Searched
  /\ Q.base # "none"
  /\ Len(tree[<< >>].children) >= 2
  /\ tree[<< >>].untried = << >>
  /\ \E i, j \in 1..Len(experience) :
       /\ i < j
       /\ experience[i][1] = experience[j][1]
       /\ experience[i][2] = experience[j][2]
       /\ experience[i][3] # experience[j][3]

\* act has been called and has not returned
Deciding == pc \in {"win", "block", "qlookup", "mcts", "rollout"}

\* C23: every act call returns; its search runs simulations iterations, one
\* visit of the root each; no node of the tree is deeper than the root
\* board has empty cells; every move of a rollout fills one cell, so that a
\* rollout ends, in a terminal state, after at most as many moves as its
\* start state has empty cells.
C23_ActTerminates ==
  /\ Deciding ~> pc = "returned"
  /\ [](Deciding => iters <= simulations)
  /\ []((pc = "returned" /\ Searched) =>
          iters = simulations /\ tree[<< >>].visits = simulations)
  /\ [](pc \in {"mcts", "rollout"} =>
          /\ \A x \in DOMAIN tree : Len(x) <= Empties(board)
          /\ \A x \in DOMAIN tree :
               Empties(tree[x].state.board) = Empties(board) - Len(x))
  /\ [](pc = "rollout" =>
          /\ node \in DOMAIN tree
          /\ Empties(cur.board) <= Empties(tree[node].state.board))
  /\ [][(pc = "rollout" /\ pc' = "rollout") =>
          Empties(cur'.board) = Empties(cur.board) - 1]_vars
  /\ [][(pc = "rollout" /\ pc' = "mcts") => is_final(cur.board)]_vars

\* C23 witness: a search of simulations iterations has returned after an
\* iteration that went two levels down the tree
C23_Witness ==
  /\ pc = "returned"
  /\ Searched
  /\ iters = simulations
  /\ \E x \in DOMAIN tree : Len(x) >= 2 /\ tree[x].visits >= 1
  /\ \E x \in DOMAIN tree :
       Len(x) = 1 /\ tree[x].children = << >> /\ ~is_final(tree[x].state.board)

\* the node the selection of the iteration that is starting stops at: the
\* parent of the new node when the iteration expands, the node itself when
\* it does not
Selected == IF DOMAIN tree' # DOMAIN tree THEN SubSeq(node', 1, Len(node') - 1) ELSE node'

\* C24: the selection of an iteration stops at a node that is terminal or
\* has untried actions, every node it went through is non-terminal and
\* fully expanded, and from each of them it went to a child whose score
\* (1 - beta) * prior + beta * (value / visits + c * sqrt(ln(parent visits)
\* / visits)), the prior being 0.5 for an absent entry, no other child of
\* that node exceeds.
C24_SelectionByScore ==
  [][(pc = "mcts" /\ pc' = "rollout") =>
       /\ Selected \in DOMAIN tree
       /\ is_final(tree[Selected].state.board) \/ ~is_fully_expanded(tree[Selected])
       /\ \A k \in 0..(Len(Selected) - 1) :
            LET x == SubSeq(Selected, 1, k)
                a == Selected[k + 1]
            IN  /\ ~is_final(tree[x].state.board)
                /\ is_fully_expanded(tree[x])
                /\ a \in Range(tree[x].children)
                /\ \A b \in Range(tree[x].children) :
                     Score(tree, Q, x, b) <= Score(tree, Q, x, a)]_vars

\* C24 witness: a selection went two levels down, passing by a child of the
\* root of lower score, on a table that has an entry for the root
C24_Witness ==
  /\ pc = "rollout"
  /\ Len(node) >= 2
  /\ \E b \in Range(tree[<< >>].children) :
       /\ Score(tree, Q, << >>, b) < Score(tree, Q, << >>, node[1])
       /\ QGet(Q, board, b) # QGet(Q, board, node[1])

RECURSIVE VisitsOf(_, _, _)
\* the sum of the visit counts of the children of the node at path x reached
\* by the actions of the sequence acts
VisitsOf(t, x, acts) ==
  IF acts = << >> THEN 0
  ELSE t[Append(x, Head(acts))].visits + VisitsOf(t, x, Tail(acts))

\* C25: between the iterations of a search and at its end, every
\* non-terminal node other than the root has one visit more than its
\* children together, the non-terminal root has as many visits as its
\* children together and as iterations were completed, and the value of
\* every node is between 0 and its visit count.
C25_VisitsConserved ==
  ((pc = "mcts" /\ tree # NoTree) \/ (pc = "returned" /\ Searched)) =>
    /\ \A x \in DOMAIN tree :
         /\ (x # << >> /\ ~is_final(tree[x].state.board)) =>
              tree[x].visits = 1 + VisitsOf(tree, x, tree[x].children)
         /\ 0 <= tree[x].value2
         /\ tree[x].value2 <= 2 * tree[x].visits
    /\ ~is_final(tree[<< >>].state.board) =>
         /\ tree[<< >>].visits = VisitsOf(tree, << >>, tree[<< >>].children)
         /\ tree[<< >>].visits = iters

\* C25 witness: after four iterations or more a node below the root has
\* children and several visits, a terminal node was visited again, and the
\* value of a node is strictly between 0 and its visit count
C25_Witness ==
  /\ pc = "mcts"
  /\ iters >= 4
  /\ \E x \in DOMAIN tree :
       /\ x # << >>
       /\ ~is_final(tree[x].state.board)
       /\ tree[x].children # << >>
       /\ tree[x].visits >= 3
  /\ \E x \in DOMAIN tree : is_final(tree[x].state.board) /\ tree[x].visits >= 2
  /\ \E x \in DOMAIN tree :
       0 < tree[x].value2 /\ tree[x].value2 < 2 * tree[x].visits

\* C26: every node the selection of an iteration evaluates best_child on has
\* been visited and has children, each of its children has been visited,
\* so that no score is the infinite one of the zero-visit branch and no
\* division or logarithm is of zero, and the children of maximal score the
\* choice is made among are at least one.
C26_BestChildDefined ==
  [][(pc = "mcts" /\ pc' = "rollout") =>
       \A k \in 0..(Len(Selected) - 1) :
         LET x == SubSeq(Selected, 1, k)
         IN  /\ tree[x].visits >= 1
             /\ tree[x].children # << >>
             /\ \A a \in Range(tree[x].children) :
                  /\ tree[Append(x, a)].visits >= 1
                  /\ Score(tree, Q, x, a) < InfScore
             /\ best_child(tree, Q, x) # {}]_vars

\* C26 witness: an iteration evaluated best_child on the root and on a child
\* of the root and came to a node that had been visited before
C26_Witness ==
  /\ pc = "rollout"
  /\ Len(node) >= 2
  /\ tree[node].visits >= 1
  /\ Len(tree[<< >>].children) >= 2
  /\ Len(tree[<<node[1]>>].children) >= 1

\* C27: every experience tuple a search records for (position key k, action
\* a), and so every update of the entry of (k, a), carries the reward of the
\* rollout for the player who is to move at k.
C27_RewardForMoverAtKey ==
  [][(pc = "rollout" /\ pc' = "mcts") =>
       \A i \in (Len(experience) + 1)..Len(experience') :
         experience'[i][3] =
           Reward2(cur.board, current_player(experience'[i][1]))]_vars

\* whether the table has an entry for the position key
HasKey(q, key) ==
  \/ BaseEntries(q.base) # << >>
  \/ \E i \in 1..Len(q.upd) : q.upd[i][1] = key

\* the act call is at its Q lookup on a position it has searched before
LaterLookup == pc = "qlookup" /\ searches >= 1

\* C28 as stated: once a decide call on a position has run a search, every
\* later act call on that position that comes to the Q lookup returns
\* there, without a search and with the table unchanged.
C28_SearchedOnce ==
  [][LaterLookup => (pc' = "returned" /\ Q' = Q)]_vars

\* C28 amended: from an empty table, the end of a search leaves an entry
\* for the root position, and all entries for it have legal actions; a later
\* act call on the position that finds such an entry returns a legal column
\* at the Q lookup, without a search and with the table unchanged; it
\* finds none, and searches again, only when the table is the one a mount
\* loaded from a q_file that lacks them.
C28_SearchedOnceUnlessReloaded ==
  /\ [][SearchEnds =>
          /\ \E i \in 1..Len(Q'.upd) : Q'.upd[i][1] = board
          /\ \A i \in 1..Len(Q'.upd) :
               Q'.upd[i][1] = board =>
                 LegalIn(board, get_free_cols(board), Q'.upd[i][2])]_vars
  /\ [][(LaterLookup /\ HasKey(Q, board)) =>
          /\ pc' = "returned"
          /\ LegalIn(board, get_free_cols(board), ret')
          /\ Q' = Q]_vars
  /\ [][(LaterLookup /\ ~HasKey(Q, board)) =>
          /\ pc' = "mcts"
          /\ Q = load_Q(qfile).table
          /\ ~HasKey(load_Q(qfile).table, board)]_vars

\* C28 witness: a position that was searched was put to Aha again after a
\* mount that reloaded the saved table, and the call returned at the Q
\* lookup
C28_Witness ==
  /\ pc = "returned"
  /\ searches = 1
  /\ runs.cols # << >>
  /\ stages = {"win", "block", "qlookup"}
  /\ Q = load_Q(qfile).table
  /\ \E i \in 1..Len(Q.upd) : Q.upd[i][1] = board /\ Q.upd[i][2] = ret

\* ---------------------------------------------------------------- C29
\* the table the file holds
OnFile == load_Q(qfile).table

\* an entry with the position and action of e
Holds(q, e) == HasUpd(q, e[1], e[2])

\* C29: two instances on one q_file, mount and decide interleaved: the file
\* changes only when a search of the instance asked ends; a save that goes
\* through leaves the file equal to that instance's table, with no entry of
\* the old file that the table lacks; and the file equals the table of the
\* instance that saved last, as long as no save of it has failed since
C29_LastWriterWins ==
  /\ [](/\ saver = "self" => OnFile = Q
        /\ saver = "peer" => OnFile = peer)
  /\ [][/\ qfile' # qfile => SearchEnds
        /\ (SearchEnds /\ saver' = "self") =>
             /\ load_Q(qfile').table = Q'
             /\ \A i \in 1..Len(OnFile.upd) :
                  ~Holds(Q', OnFile.upd[i]) => ~Holds(load_Q(qfile').table, OnFile.upd[i])]_vars

\* the instance asked saved last, and the other one holds an entry, read from
\* the file or saved to it by itself, that the file has no more
C29_Witness ==
  /\ saver = "self"
  /\ OnFile = Q
  /\ \E i \in 1..Len(peer.upd) : ~Holds(OnFile, peer.upd[i])

====
